---- MODULE Spec2Model ----
(***************************************************************************)
(* Model of liballuris (src/liballuris/liballuris.c): the send/receive     *)
(* wrapper liballuris_device_bulk_transfer, the commands built on it and   *)
(* the start/stop polling loops.  The two transfer buffers out_buf and     *)
(* in_buf are process-wide; the USB stack and the instrument are the       *)
(* environment, whose answers are drawn nondeterministically.              *)
(***************************************************************************)
EXTENDS Integers, Sequences, FiniteSets, TLC

VARIABLES out_buf, in_buf, dev, pc, timeout, state, call, tx, hist, outv, ncalls,
          thr

vars ==
  <<out_buf, in_buf, dev, pc, timeout, state, call, tx, hist, outv, ncalls, thr>>

(***************************************************************************)
(* Program constants                                                       *)
(***************************************************************************)
\* liballuris.h (not under src/): capacities of out_buf and in_buf
DEFAULT_SEND_BUF_LEN == 8
DEFAULT_RECV_BUF_LEN == 64

\* libusb error codes (libusb.h)
LIBUSB_SUCCESS == 0
LIBUSB_ERROR_TIMEOUT == -7
LIBUSB_ERROR_OVERFLOW == -8

\* enum liballuris_error (liballuris.h); 2 and 4 are the exit codes the
\* acceptance tests observe for device-busy and out-of-range
LIBALLURIS_SUCCESS == 0
LIBALLURIS_MALFORMED_REPLY == 1
LIBALLURIS_DEVICE_BUSY == 2
LIBALLURIS_OUT_OF_RANGE == 4

\* iteration budgets of the polling loops
StartTimeout == 20
StopTimeout == 10

\* largest packet length liballuris_cyclic_measurement accepts
CyclicMaxLen == 19

(***************************************************************************)
(* Bounds of the model                                                     *)
(***************************************************************************)
\* lengths above CyclicMaxLen offered to liballuris_cyclic_measurement
MaxExcess == 2

\* calls of the library a run of Spec makes
MaxCalls == 1

(***************************************************************************)
(* Bytes and buffers                                                       *)
(***************************************************************************)
\* buf with the bytes of the sequence frame stored from offset 0
SetBytes(buf, frame) ==
  [i \in DOMAIN buf |-> IF i < Len(frame) THEN frame[i + 1] ELSE buf[i]]

\* the first n bytes of buf, as a sequence
Bytes(buf, n) ==
  [i \in 1..n |-> buf[i - 1]]

\* the first n elements of the sequence s (all of it when it is shorter)
Take(s, n) ==
  SubSeq(s, 1, IF n < Len(s) THEN n ELSE Len(s))

(***************************************************************************)
(* Frame codec: decoders                                                   *)
(***************************************************************************)
\* values the byte of `ret' that memcpy (&ret, in, 3) leaves unwritten may hold
GarbageBytes == {0, 1, 255}

char_to_uint16(buf, off) ==
  LET u == buf[off] + 256 * buf[off + 1]
  IN  IF u >= 32768 THEN u - 65536 ELSE u

\* the int whose three low bytes are copied from buf and whose high byte g
\* was never written (two's complement, 32 bits)
char_to_uint24(buf, off, g) ==
  buf[off] + 256 * buf[off + 1] + 65536 * buf[off + 2]
    + 16777216 * (IF g >= 128 THEN g - 256 ELSE g)

char_to_int24(buf, off, g) ==
  LET ret == char_to_uint24(buf, off, g)
  IN  IF ret > 8388607 THEN ret - 16777216 ELSE ret

\* memcpy (out_buf+3, (unsigned char *) &limit, 3): the three low bytes of the
\* 32 bit two's complement int v, least significant first
EncodeInt24(v) ==
  LET u == v % 16777216
  IN  <<u % 256, (u \div 256) % 256, (u \div 65536) % 256>>

\* bit `measuring' of struct liballuris_state, the 12th flag of the bit field
StateMeasuring(v) ==
  ((v % 16777216) \div 2048) % 2 = 1

(***************************************************************************)
(* The instrument (environment).  It executes a command once the complete  *)
(* frame has arrived and answers with a frame that echoes the opcode and   *)
(* declares its own length.  Start and stop are acknowledged at once and   *)
(* take effect later (DeviceSettle).                                       *)
(***************************************************************************)
\* modes the instrument can be in (enum liballuris_measurement_mode)
Modes == 0..3

DevProcess(frame, d) ==
  IF Len(frame) >= 3 /\ frame[1] = 28
    THEN [d EXCEPT !.target = (frame[3] = 1)]
  ELSE IF Len(frame) >= 3 /\ frame[1] = 4 /\ ~d.measuring /\ frame[3] \in Modes
    THEN [d EXCEPT !.mode = frame[3]]
  ELSE IF Len(frame) >= 6 /\ frame[1] = 24
    THEN IF frame[3] = 0 THEN [d EXCEPT !.pos = SubSeq(frame, 4, 6)]
         ELSE [d EXCEPT !.neg = SubSeq(frame, 4, 6)]
  ELSE d

\* alt: the instrument answers a mode query during a measurement with 0xFF.
\* An idle instrument reports serial number P.258 and one digit; a measuring
\* one fills the numeric field of the 0x08 family with the sentinel -1.
DevReply(frame, d, alt) ==
  LET op  == frame[1]
      sub == IF Len(frame) >= 3 THEN frame[3] ELSE 0
  IN  CASE op = 8 /\ sub = 6 ->
             IF d.measuring THEN <<8, 6, 6, 255, 255, 255>>
             ELSE <<8, 6, 6, 2, 1, 15>>
        [] op = 8 /\ sub # 6 ->
             IF d.measuring THEN <<8, 6, sub, 255, 255, 255>>
             ELSE <<8, 6, sub, 1, 0, 0>>
        [] op = 70 /\ sub = 2 ->
             <<70, 6, 2, 0, IF d.measuring THEN 8 ELSE 0, 0>>
        [] op = 70 /\ sub # 2 -> <<70, 6, sub, 254, 255, 255>>
        [] op = 1  -> <<1, 4, sub, frame[4]>>
        [] op = 4  -> <<4, 3, d.mode>>
        [] op = 5  -> <<5, 3, IF d.measuring /\ alt THEN 255 ELSE d.mode>>
        [] op = 24 -> <<24, 6, sub>> \o SubSeq(frame, 4, 6)
        [] op = 25 -> <<25, 6, sub>> \o (IF sub = 0 THEN d.pos ELSE d.neg)
        [] OTHER   -> <<op, 3, sub>>

\* block of buffered samples the instrument streams in cyclic mode
CyclicBlock(len) ==
  [i \in 1..len |-> IF i <= 5 THEN 0 ELSE IF i % 3 = 0 THEN 254 ELSE 255]

\* disturbance of a reply on the wire: the echoed opcode or the length byte
GarbleReply(reply, garble) ==
  CASE garble = "echo" -> [reply EXCEPT ![1] = 238]
    [] garble = "len"  -> [reply EXCEPT ![2] = (@ + 1) % 256]
    [] OTHER           -> reply

(***************************************************************************)
(* The USB stack (environment): what one libusb_bulk_transfer reports      *)
(***************************************************************************)
\* byte counts a transfer of n bytes may report: all of them, or one less
ShortCounts(n) ==
  {k \in {n, n - 1} : k >= 0}

WriteOutcomes(send_len) ==
  [r : {LIBUSB_SUCCESS, LIBUSB_ERROR_TIMEOUT}, actual : ShortCounts(send_len)]

\* alts: the answers the instrument may choose between (DevReply)
ReadOutcomesOf(reply_len, alts) ==
  {o \in [r : {LIBUSB_SUCCESS, LIBUSB_ERROR_TIMEOUT, LIBUSB_ERROR_OVERFLOW},
          actual : ShortCounts(reply_len),
          garble : {"none", "echo", "len"},
          alt : alts] :
     o.garble = "none" \/ (o.r = LIBUSB_SUCCESS /\ o.actual = reply_len)}

ReadOutcomes(reply_len) ==
  ReadOutcomesOf(reply_len, {FALSE})

\* the read that follows a write the instrument did not receive as a whole
PlainRead(reply_len) ==
  [r |-> LIBUSB_SUCCESS, actual |-> reply_len, garble |-> "none", alt |-> FALSE]

\* what the USB stack reports in one transaction: every write outcome, and
\* every read outcome after a write that went through
IoOutcomes(send_len, reply_len, reads) ==
  {io \in [w : WriteOutcomes(send_len), rd : reads] :
     \/ io.w.r = LIBUSB_SUCCESS /\ io.w.actual = send_len
     \/ io.rd = PlainRead(reply_len)}

(***************************************************************************)
(* Transaction engine: liballuris_device_bulk_transfer                     *)
(***************************************************************************)
\* faulty variant: the reply length is compared with the send capacity
ExceedsCapacitySendOnly(send_len, reply_len) ==
  send_len > DEFAULT_SEND_BUF_LEN \/ reply_len > DEFAULT_SEND_BUF_LEN

\* the two checks that end the process with exit (-1)
ExceedsCapacity(send_len, reply_len) ==
  send_len > DEFAULT_SEND_BUF_LEN \/ reply_len > DEFAULT_RECV_BUF_LEN

\* faulty variant: a short count with a success code passes
WriteFailedCodeOnly(r, actual, send_len) ==
  r # LIBUSB_SUCCESS

WriteFailed(r, actual, send_len) ==
  r # LIBUSB_SUCCESS \/ actual # send_len

ReadFailed(r, actual, reply_len) ==
  r # LIBUSB_SUCCESS \/ actual # reply_len

ReplyMalformed(r, send_len, in0, out0, in1, actual) ==
  r = 0 /\ send_len > 0 /\ (in0 # out0 \/ in1 # actual)

\* faulty variant: the sign of the USB code is lost
WriteErrorCodeAbs(r) ==
  IF r < 0 THEN -r ELSE r

\* value returned when the write phase is given up
WriteErrorCode(r) ==
  r

NoTx ==
  [send_len |-> 0, reply_len |-> 0, wrote |-> FALSE, w_r |-> 0, w_actual |-> 0,
   sent |-> <<>>, read |-> FALSE, r_r |-> 0, r_actual |-> 0, in0 |-> 0,
   in1 |-> 0, out0 |-> 0, ret |-> 0, abort |-> "none"]

\* out, inb: the buffers; d: the instrument; w, rd: what the USB stack
\* reports for the write and for the read
BulkTransfer(out, inb, d, send_len, reply_len, w, rd) ==
  LET t0 == [NoTx EXCEPT !.send_len = send_len, !.reply_len = reply_len,
                         !.out0 = out[0]]
  IN  IF ExceedsCapacity(send_len, reply_len)
        THEN [inb |-> inb, dev |-> d, t |-> [t0 EXCEPT !.abort = "exit"]]
      ELSE IF send_len > 0 /\ out[1] # send_len
        THEN [inb |-> inb, dev |-> d, t |-> [t0 EXCEPT !.abort = "assert"]]
      ELSE
        LET wrote == send_len > 0
            frame == Bytes(out, send_len)
            d1 == IF wrote /\ w.actual = send_len THEN DevProcess(frame, d) ELSE d
            t1 == IF wrote
                    THEN [t0 EXCEPT !.wrote = TRUE, !.w_r = w.r,
                                    !.w_actual = w.actual,
                                    !.sent = Bytes(out, w.actual)]
                    ELSE t0
        IN  IF wrote /\ WriteFailed(w.r, w.actual, send_len)
              THEN [inb |-> inb, dev |-> d1,
                    t |-> [t1 EXCEPT !.ret = WriteErrorCode(w.r)]]
            ELSE IF reply_len <= 0
              THEN [inb |-> inb, dev |-> d1,
                    t |-> [t1 EXCEPT !.ret = IF wrote THEN w.r ELSE 0]]
            ELSE
              LET reply == IF wrote
                             THEN GarbleReply(DevReply(frame, d1, rd.alt), rd.garble)
                             ELSE GarbleReply(CyclicBlock(reply_len), rd.garble)
                  in_new == SetBytes(inb, Take(reply, rd.actual))
                  ret == IF ReadFailed(rd.r, rd.actual, reply_len)
                            /\ rd.r = LIBUSB_ERROR_OVERFLOW
                           THEN rd.r
                         ELSE IF ReplyMalformed(rd.r, send_len, in_new[0], out[0],
                                                in_new[1], rd.actual)
                           THEN LIBALLURIS_MALFORMED_REPLY
                         ELSE rd.r
              IN  [inb |-> in_new, dev |-> d1,
                   t |-> [t1 EXCEPT !.read = TRUE, !.r_r = rd.r,
                                    !.r_actual = rd.actual, !.in0 = in_new[0],
                                    !.in1 = in_new[1], !.ret = ret]]

(***************************************************************************)
(* Callers in several threads (used by SpecThreads only).  thr.serial: the  *)
(* callers serialise their calls; thr.aborted: the assertion ended the      *)
(* process; thr.wire: replies the instrument has queued on the IN endpoint; *)
(* thr.t[i]: the call of thread i, with its position pc, the number k of    *)
(* frame bytes stored, the frame sent, the reply its read received, the     *)
(* local `actual', the reply queued for its own frame (own) and the first   *)
(* bytes of in_buf it validated and decoded (seen).                         *)
(***************************************************************************)
Threads == {1, 2}

IdleThread ==
  [pc |-> "idle", fn |-> "none", arg |-> 0, k |-> 0, sent |-> <<>>,
   got |-> <<>>, actual |-> 0, own |-> <<>>, seen |-> <<>>, ret |-> 0]

NoThreads ==
  [serial |-> TRUE, aborted |-> FALSE, wire |-> <<>>,
   t |-> [i \in Threads |-> IdleThread]]

(***************************************************************************)
(* Bookkeeping of the call in progress (observation only)                  *)
(***************************************************************************)
\* fn, arg, arg2: the call; ret: its return value once pc is "returned";
\* txs: transactions entered; xfers: libusb_bulk_transfer calls (those of
\* the state reads of a polling loop are counted by reads only); reads,
\* sleeps: state reads and usleep calls of a polling loop; shortw: a write
\* moved fewer bytes than requested; rd_ret, rd_meas: return value of the
\* last state read and the flag the loop inspected after it; rd1: outcome of
\* the first state read; dev_meas: the instrument was measuring when the
\* call's transaction ran; prev: hist when the call was entered; sleep_on,
\* while_on: origin of the snapshot whose measuring flag the last pass read
\* for its sleep decision and for its loop condition (none: not read)
NoCall ==
  [fn |-> "none", arg |-> 0, arg2 |-> 0, ret |-> 0, txs |-> 0, xfers |-> 0,
   reads |-> 0, sleeps |-> 0, shortw |-> FALSE, rd_ret |-> 0,
   rd_meas |-> FALSE, rd1 |-> "none", dev_meas |-> FALSE, prev |-> "other",
   sleep_on |-> "none", while_on |-> "none"]

Begin(fn, arg, arg2) ==
  [NoCall EXCEPT !.fn = fn, !.arg = arg, !.arg2 = arg2, !.prev = hist,
                 !.dev_meas = dev.measuring]

Account(c, t) ==
  [c EXCEPT !.txs = @ + 1,
            !.xfers = @ + (IF t.wrote THEN 1 ELSE 0) + (IF t.read THEN 1 ELSE 0),
            !.shortw = @ \/ (t.wrote /\ t.w_actual < t.send_len)]

\* "started" after a start call, "stopped" after a stop call that followed
\* it at once and returned 0, "limit_set" after a limit setter returned 0
NextHist(h, fn, ret) ==
  IF fn = "start" THEN "started"
  ELSE IF fn \in {"set_pos_limit", "set_neg_limit"} /\ ret = 0 THEN "limit_set"
  ELSE IF fn = "stop" /\ h = "started" /\ ret = 0 THEN "stopped"
  ELSE "other"

NoState == [measuring |-> FALSE, init |-> "none"]
NoOut == [written |-> FALSE, val |-> 0]

\* a call returns ret after its transaction b (or the process ends in it)
Return(c, out, b, ret, ov) ==
  /\ out_buf' = out
  /\ in_buf' = b.inb
  /\ dev' = b.dev
  /\ tx' = b.t
  /\ outv' = ov
  /\ timeout' = 0
  /\ state' = NoState
  /\ ncalls' = ncalls + 1
  /\ thr' = thr
  /\ IF b.t.abort # "none"
       THEN /\ pc' = "aborted"
            /\ call' = Account(c, b.t)
            /\ hist' = hist
       ELSE /\ pc' = "returned"
            /\ call' = [Account(c, b.t) EXCEPT !.ret = ret]
            /\ hist' = NextHist(hist, c.fn, ret)

\* a call returns ret without having entered a transaction
Reject(c, ret) ==
  /\ pc' = "returned"
  /\ call' = [c EXCEPT !.ret = ret]
  /\ hist' = NextHist(hist, c.fn, ret)
  /\ outv' = NoOut
  /\ tx' = NoTx
  /\ ncalls' = ncalls + 1
  /\ thr' = thr
  /\ UNCHANGED <<out_buf, in_buf, dev, timeout, state>>

(***************************************************************************)
(* Command set                                                             *)
(***************************************************************************)
\* the caller is between two calls and makes another one
CanCall ==
  pc = "idle" /\ ncalls < MaxCalls

liballuris_tare ==
  /\ CanCall
  /\ \E io \in IoOutcomes(3, 3, ReadOutcomes(3)) :
       LET out == SetBytes(out_buf, <<21, 3, 0>>)
       IN  \E b \in {BulkTransfer(out, in_buf, dev, 3, 3, io.w, io.rd)} :
             Return(Begin("tare", 0, 0), out, b, b.t.ret, NoOut)

\* the numeric field of the serial number reply is the busy sentinel
SerialBusy(tmp) ==
  tmp = -1

liballuris_serial_number ==
  /\ CanCall
  /\ \E io \in IoOutcomes(3, 6, ReadOutcomes(6)) :
       LET out == SetBytes(out_buf, <<8, 3, 6>>)
       IN  \E b \in {BulkTransfer(out, in_buf, dev, 3, 6, io.w, io.rd)} :
             LET tmp == char_to_uint16(b.inb, 3)
             IN  IF b.t.ret = LIBALLURIS_SUCCESS
                   THEN IF SerialBusy(tmp)
                          THEN Return(Begin("serial_number", 0, 0), out, b,
                                      LIBALLURIS_DEVICE_BUSY, NoOut)
                          ELSE Return(Begin("serial_number", 0, 0), out, b, b.t.ret,
                                      [written |-> TRUE,
                                       val |-> <<b.inb[5] + 65, tmp>>])
                   ELSE Return(Begin("serial_number", 0, 0), out, b, b.t.ret, NoOut)

liballuris_digits ==
  /\ CanCall
  /\ \E io \in IoOutcomes(3, 6, ReadOutcomes(6)), g \in GarbageBytes :
       LET out == SetBytes(out_buf, <<8, 3, 3>>)
       IN  \E b \in {BulkTransfer(out, in_buf, dev, 3, 6, io.w, io.rd)} :
             LET v == char_to_int24(b.inb, 3, g)
             IN  IF b.t.ret = LIBALLURIS_SUCCESS
                   THEN Return(Begin("digits", 0, 0), out, b,
                               IF v = -1 THEN LIBALLURIS_DEVICE_BUSY ELSE b.t.ret,
                               [written |-> TRUE, val |-> v])
                   ELSE Return(Begin("digits", 0, 0), out, b, b.t.ret, NoOut)

\* liballuris_raw_value, liballuris_raw_pos_peak, liballuris_raw_neg_peak:
\* request 0x46 with selector sub, the value stored only on success
RawQuery(fn, sub) ==
  \E io \in IoOutcomes(3, 6, ReadOutcomes(6)), g \in GarbageBytes :
    LET out == SetBytes(out_buf, <<70, 3, sub>>)
    IN  \E b \in {BulkTransfer(out, in_buf, dev, 3, 6, io.w, io.rd)} :
          Return(Begin(fn, 0, 0), out, b, b.t.ret,
                 IF b.t.ret = LIBALLURIS_SUCCESS
                   THEN [written |-> TRUE, val |-> char_to_int24(b.inb, 3, g)]
                   ELSE NoOut)

liballuris_raw_value ==
  /\ CanCall
  /\ RawQuery("raw_value", 3)

liballuris_raw_pos_peak ==
  /\ CanCall
  /\ RawQuery("raw_pos_peak", 4)

liballuris_raw_neg_peak ==
  /\ CanCall
  /\ RawQuery("raw_neg_peak", 5)

liballuris_get_mode ==
  /\ CanCall
  /\ \E io \in IoOutcomes(2, 3, ReadOutcomesOf(3, BOOLEAN)) :
       LET out == SetBytes(out_buf, <<5, 2>>)
       IN  \E b \in {BulkTransfer(out, in_buf, dev, 2, 3, io.w, io.rd)} :
             Return(Begin("get_mode", 0, 0), out, b, b.t.ret,
                    IF b.t.ret = LIBALLURIS_SUCCESS
                      THEN [written |-> TRUE, val |-> b.inb[2]]
                      ELSE NoOut)

\* modes offered to liballuris_set_mode: two valid ones and one beyond the enum
ModeArgs == {0, 3, 4}

\* faulty variant: the upper limit is off by one
ModeOutOfRangeOffByOne(mode) ==
  mode < 0 \/ mode > 4

\* if (mode < 0 || mode > 3)
ModeOutOfRange(mode) ==
  mode < 0 \/ mode > 3

liballuris_set_mode ==
  /\ CanCall
  /\ \E mode \in ModeArgs :
       IF ModeOutOfRange(mode)
         THEN Reject(Begin("set_mode", mode, 0), LIBALLURIS_OUT_OF_RANGE)
         ELSE \E io \in IoOutcomes(3, 3, ReadOutcomes(3)) :
                LET out == SetBytes(out_buf, <<4, 3, mode>>)
                IN  \E b \in {BulkTransfer(out, in_buf, dev, 3, 3, io.w, io.rd)} :
                      Return(Begin("set_mode", mode, 0), out, b,
                             IF b.inb[2] # mode THEN LIBALLURIS_DEVICE_BUSY
                             ELSE b.t.ret,
                             NoOut)

\* liballuris_read_state on the buffers outb, inb: the transaction and the
\* measuring flag of the snapshot it decodes (stored only when ok)
ReadState(outb, inb, d, w, rd, g) ==
  LET out == SetBytes(outb, <<70, 3, 2>>)
  IN  LET b == BulkTransfer(out, inb, d, 3, 6, w, rd)
      IN  [out |-> out, b |-> b, ok |-> (b.t.ret = LIBALLURIS_SUCCESS),
           measuring |-> StateMeasuring(char_to_int24(b.inb, 3, g))]

\* the call liballuris_read_state (dev_handle, &state, timeout)
read_state ==
  \E io \in IoOutcomes(3, 6, ReadOutcomes(6)), g \in GarbageBytes :
    \E rs \in {ReadState(out_buf, in_buf, dev, io.w, io.rd, g)} :
      Return(Begin("read_state", 0, 0), rs.out, rs.b, rs.b.t.ret,
             IF rs.ok THEN [written |-> TRUE, val |-> rs.measuring]
             ELSE NoOut)

liballuris_read_state ==
  /\ CanCall
  /\ read_state

(***************************************************************************)
(* liballuris_set_unit is not part of liballuris.c as given; the tests of  *)
(* src/test drive it through the command line tool.  Units are numbered   *)
(* N = 0, cN = 1, kg = 2, g = 3, lb = 4, oz = 5.                           *)
(***************************************************************************)
\* units an instrument with F_max <= 10 N accepts (the tests set N, g, oz)
SupportedUnits == {0, 3, 5}

\* units offered to liballuris_set_unit
UnitArgs == 0..6

\* faulty variant: only the range of the enumeration is checked
UnitOutOfRangeEnumOnly(unit) ==
  unit < 0 \/ unit > 5

UnitOutOfRange(unit) ==
  unit \notin SupportedUnits

liballuris_set_unit ==
  /\ CanCall
  /\ \E unit \in UnitArgs :
       IF UnitOutOfRange(unit)
         THEN Reject(Begin("set_unit", unit, 0), LIBALLURIS_OUT_OF_RANGE)
         ELSE \E io \in IoOutcomes(3, 3, ReadOutcomes(3)) :
                LET out == SetBytes(out_buf, <<26, 3, unit>>)
                IN  \E b \in {BulkTransfer(out, in_buf, dev, 3, 3, io.w, io.rd)} :
                      Return(Begin("set_unit", unit, 0), out, b, b.t.ret, NoOut)

\* packet lengths offered to liballuris_cyclic_measurement
CyclicLens == {0, CyclicMaxLen} \cup (CyclicMaxLen + 1)..(CyclicMaxLen + MaxExcess)

\* faulty variant: the upper limit is off by one
CyclicOutOfRangeOffByOne(length) ==
  length < 0 \/ length > CyclicMaxLen + 1

CyclicOutOfRange(length) ==
  length < 0 \/ length > CyclicMaxLen

\* faulty variant: the length byte counts the payload of a three byte frame
CyclicFrameLen3(enable, length) ==
  <<1, 3, IF enable THEN 2 ELSE 0, length>>

CyclicFrame(enable, length) ==
  <<1, 4, IF enable THEN 2 ELSE 0, length>>

liballuris_cyclic_measurement ==
  /\ CanCall
  /\ \E enable \in BOOLEAN, length \in CyclicLens :
       IF CyclicOutOfRange(length)
         THEN Reject(Begin("cyclic_measurement", length, enable),
                     LIBALLURIS_OUT_OF_RANGE)
         ELSE \E io \in IoOutcomes(4, 4, ReadOutcomes(4)) :
                LET out == SetBytes(out_buf, CyclicFrame(enable, length))
                IN  \E b \in {BulkTransfer(out, in_buf, dev, 4, 4, io.w, io.rd)} :
                      Return(Begin("cyclic_measurement", length, enable), out, b,
                             b.t.ret, NoOut)

\* numbers of samples offered to liballuris_poll_measurement; the last one
\* asks for more bytes than in_buf holds
PollLens == {0, 1, 2, 20}

liballuris_poll_measurement ==
  /\ CanCall
  /\ \E length \in PollLens : \E rd \in ReadOutcomes(5 + length * 3) :
       \E b \in {BulkTransfer(out_buf, in_buf, dev, 0, 5 + length * 3, rd, rd)} :
         IF b.t.abort # "none"
           THEN Return(Begin("poll_measurement", length, 0), out_buf, b,
                       b.t.ret, NoOut)
           ELSE \E gs \in [1..length -> GarbageBytes] :
                  Return(Begin("poll_measurement", length, 0), out_buf, b,
                         b.t.ret,
                         [written |-> length > 0,
                          val |-> [k \in 1..length |->
                                     char_to_int24(b.inb, 5 + (k - 1) * 3, gs[k])]])

\* limits offered to the setters: both ends of the 24 bit range, -1, 0 and a
\* value whose three bytes differ
LimitArgs == {-8388608, -1, 0, 66051, 8388607}

\* liballuris_set_pos_limit (which = 0), liballuris_set_neg_limit (which = 1)
SetLimit(fn, which) ==
  \E limit \in LimitArgs : \E io \in IoOutcomes(6, 6, ReadOutcomes(6)) :
    LET out == SetBytes(out_buf, <<24, 6, which>> \o EncodeInt24(limit))
    IN  \E b \in {BulkTransfer(out, in_buf, dev, 6, 6, io.w, io.rd)} :
          Return(Begin(fn, limit, which), out, b, b.t.ret, NoOut)

\* liballuris_get_pos_limit (which = 0), liballuris_get_neg_limit (which = 1);
\* bytes 3..5 of out_buf are sent as the earlier commands left them
GetLimit(fn, which) ==
  \E io \in IoOutcomes(6, 6, ReadOutcomes(6)), g \in GarbageBytes :
    LET out == SetBytes(out_buf, <<25, 6, which>>)
    IN  \E b \in {BulkTransfer(out, in_buf, dev, 6, 6, io.w, io.rd)} :
          Return(Begin(fn, 0, which), out, b, b.t.ret,
                 IF b.t.ret = LIBALLURIS_SUCCESS
                   THEN [written |-> TRUE, val |-> char_to_int24(b.inb, 3, g)]
                   ELSE NoOut)

liballuris_set_pos_limit ==
  /\ CanCall
  /\ SetLimit("set_pos_limit", 0)

liballuris_set_neg_limit ==
  /\ CanCall
  /\ SetLimit("set_neg_limit", 1)

liballuris_get_pos_limit ==
  /\ CanCall
  /\ GetLimit("get_pos_limit", 0)

liballuris_get_neg_limit ==
  /\ CanCall
  /\ GetLimit("get_neg_limit", 1)

(***************************************************************************)
(* State poller: liballuris_start_measurement, liballuris_stop_measurement *)
(***************************************************************************)
\* the loop sleeps when the snapshot is not yet what the call waits for
StartSleeps(measuring) ==
  ~measuring

\* faulty variant: the stop loop sleeps on the condition of the start loop
StopSleepsAsStart(measuring) ==
  ~measuring

StopSleeps(measuring) ==
  measuring

\* faulty variant: the start loop does not test its pass counter
StartContinueNoTimeout(ret, t, measuring) ==
  ret = 0 /\ ~measuring

\* while (!ret && timeout && !state.measuring)
StartContinue(ret, t, measuring) ==
  ret = 0 /\ t # 0 /\ ~measuring

\* while (!ret && timeout && state.measuring)
StopContinue(ret, t, measuring) ==
  ret = 0 /\ t # 0 /\ measuring

\* faulty variant: a failed state read is reported as device-busy too
PollResultBusyOnError(ret, t) ==
  IF t = 0 \/ ret # 0 THEN LIBALLURIS_DEVICE_BUSY ELSE ret

\* if (! timeout) ret = LIBALLURIS_DEVICE_BUSY;
PollResult(ret, t) ==
  IF t = 0 THEN LIBALLURIS_DEVICE_BUSY ELSE ret

\* the command transaction of start (go = 1) or stop (go = 0); u is what
\* the uninitialised local `state' holds when the loop is entered
Command(fn, go, loop, budget) ==
  \E io \in IoOutcomes(3, 3, ReadOutcomes(3)), u \in BOOLEAN :
    LET out == SetBytes(out_buf, <<28, 3, go>>)
    IN  \E b \in {BulkTransfer(out, in_buf, dev, 3, 3, io.w, io.rd)} :
          IF b.t.abort = "none" /\ b.t.ret = LIBALLURIS_SUCCESS
            THEN /\ pc' = loop
                 /\ timeout' = budget
                 /\ state' = [measuring |-> u, init |-> "uninit"]
                 /\ call' = Account(Begin(fn, 0, 0), b.t)
                 /\ out_buf' = out
                 /\ in_buf' = b.inb
                 /\ dev' = b.dev
                 /\ tx' = b.t
                 /\ outv' = NoOut
                 /\ hist' = hist
                 /\ ncalls' = ncalls + 1
                 /\ thr' = thr
            ELSE Return(Begin(fn, 0, 0), out, b, b.t.ret, NoOut)

\* one pass of the do-while loop, and what follows it when it is the last
Poll(fn, loop, start) ==
  \E io \in IoOutcomes(3, 6, ReadOutcomes(6)), g \in GarbageBytes :
    \E rs \in {ReadState(out_buf, in_buf, dev, io.w, io.rd, g)} :
      LET t == timeout - 1
          st == IF rs.ok THEN [measuring |-> rs.measuring, init |-> "fresh"]
                ELSE [state EXCEPT !.init = IF @ = "fresh" THEN "stale" ELSE @]
          slept == IF start THEN StartSleeps(st.measuring)
                   ELSE StopSleeps(st.measuring)
          again == IF start THEN StartContinue(rs.b.t.ret, t, st.measuring)
                   ELSE StopContinue(rs.b.t.ret, t, st.measuring)
          c == [Account(call, rs.b.t) EXCEPT
                  !.xfers = call.xfers,
                  !.reads = @ + 1,
                  !.sleeps = @ + (IF slept THEN 1 ELSE 0),
                  !.rd_ret = rs.b.t.ret,
                  !.rd_meas = st.measuring,
                  !.sleep_on = IF rs.b.t.abort = "none" THEN st.init ELSE "none",
                  !.while_on = IF rs.b.t.abort = "none" /\ rs.b.t.ret = 0 /\ t # 0
                                 THEN st.init
                               ELSE "none",
                  !.rd1 = IF call.reads > 0 THEN @
                          ELSE IF ~rs.ok THEN "error"
                          ELSE IF st.measuring THEN "measuring" ELSE "idle"]
          ret == PollResult(rs.b.t.ret, t)
      IN  /\ out_buf' = rs.out
          /\ in_buf' = rs.b.inb
          /\ dev' = rs.b.dev
          /\ tx' = rs.b.t
          /\ outv' = NoOut
          /\ ncalls' = ncalls
          /\ thr' = thr
          /\ IF rs.b.t.abort # "none"
               THEN /\ pc' = "aborted"
                    /\ call' = c
                    /\ UNCHANGED <<timeout, state, hist>>
             ELSE IF again
               THEN /\ pc' = loop
                    /\ timeout' = t
                    /\ state' = st
                    /\ call' = c
                    /\ hist' = hist
             ELSE /\ pc' = "returned"
                  /\ timeout' = 0
                  /\ state' = NoState
                  /\ call' = [c EXCEPT !.ret = ret]
                  /\ hist' = NextHist(hist, fn, ret)

start_measurement ==
  Command("start", 1, "start_loop", StartTimeout)

liballuris_start_measurement ==
  /\ CanCall
  /\ start_measurement

StartPoll ==
  /\ pc = "start_loop"
  /\ Poll("start", "start_loop", TRUE)

stop_measurement ==
  Command("stop", 0, "stop_loop", StopTimeout)

liballuris_stop_measurement ==
  /\ CanCall
  /\ stop_measurement

StopPoll ==
  /\ pc = "stop_loop"
  /\ Poll("stop", "stop_loop", FALSE)

\* the caller has seen the return value and the output of the call
CallerContinues ==
  /\ pc = "returned"
  /\ pc' = "idle"
  /\ call' = NoCall
  /\ tx' = NoTx
  /\ outv' = NoOut
  /\ UNCHANGED <<out_buf, in_buf, dev, timeout, state, hist, ncalls, thr>>

\* the instrument reaches the state the last start or stop asked for
DeviceSettle ==
  /\ pc # "aborted"
  /\ dev.measuring # dev.target
  /\ dev' = [dev EXCEPT !.measuring = dev.target]
  /\ UNCHANGED <<out_buf, in_buf, pc, timeout, state, call, tx, hist, outv, ncalls,
               thr>>

(***************************************************************************)
(* Specification                                                           *)
(***************************************************************************)
Init ==
  /\ out_buf = [i \in 0..(DEFAULT_SEND_BUF_LEN - 1) |-> 0]
  /\ in_buf = [i \in 0..(DEFAULT_RECV_BUF_LEN - 1) |-> 0]
  /\ dev \in {d \in [measuring : BOOLEAN, target : BOOLEAN, mode : {0},
                      pos : {<<0, 0, 0>>}, neg : {<<0, 0, 0>>}] :
                 d.target = d.measuring}
  /\ pc = "idle"
  /\ timeout = 0
  /\ state = NoState
  /\ call = NoCall
  /\ tx = NoTx
  /\ hist = "other"
  /\ outv = NoOut
  /\ ncalls = 0
  /\ thr = NoThreads

Next ==
  \/ liballuris_tare
  \/ liballuris_serial_number
  \/ liballuris_digits
  \/ liballuris_raw_value
  \/ liballuris_raw_pos_peak
  \/ liballuris_raw_neg_peak
  \/ liballuris_get_mode
  \/ liballuris_set_mode
  \/ liballuris_read_state
  \/ liballuris_set_unit
  \/ liballuris_cyclic_measurement
  \/ liballuris_poll_measurement
  \/ liballuris_set_pos_limit
  \/ liballuris_set_neg_limit
  \/ liballuris_get_pos_limit
  \/ liballuris_get_neg_limit
  \/ liballuris_start_measurement
  \/ StartPoll
  \/ liballuris_stop_measurement
  \/ StopPoll
  \/ CallerContinues
  \/ DeviceSettle

Spec == Init /\ [][Next]_vars

(***************************************************************************)
(* The session of the acceptance tests: start, then stop at once, then a   *)
(* state read.                                                             *)
(***************************************************************************)
SessionStart ==
  /\ pc = "idle" /\ ncalls = 0
  /\ start_measurement

SessionStop ==
  /\ pc = "idle" /\ hist = "started"
  /\ stop_measurement

SessionReadState ==
  /\ pc = "idle" /\ hist = "stopped"
  /\ read_state

NextSession ==
  \/ SessionStart
  \/ StartPoll
  \/ SessionStop
  \/ StopPoll
  \/ SessionReadState
  \/ CallerContinues
  \/ DeviceSettle

SpecSession == Init /\ [][NextSession]_vars

\* start and stop with their polling loops.  The thread that runs a loop
\* keeps running it and, every USB transfer returning, each pass completes.
NextPoll ==
  \/ liballuris_start_measurement
  \/ StartPoll
  \/ liballuris_stop_measurement
  \/ StopPoll
  \/ CallerContinues
  \/ DeviceSettle

FairPoll == WF_vars(StartPoll) /\ WF_vars(StopPoll)

SpecPoll == Init /\ [][NextPoll]_vars /\ FairPoll

(***************************************************************************)
(* A limit is written and read back: the bytes liballuris_set_pos_limit and  *)
(* liballuris_set_neg_limit encode are the bytes the getters decode.        *)
(***************************************************************************)
LimitSetPos ==
  /\ pc = "idle" /\ ncalls = 0
  /\ SetLimit("set_pos_limit", 0)

LimitSetNeg ==
  /\ pc = "idle" /\ ncalls = 0
  /\ SetLimit("set_neg_limit", 1)

LimitGetPos ==
  /\ pc = "idle" /\ hist = "limit_set"
  /\ GetLimit("get_pos_limit", 0)

LimitGetNeg ==
  /\ pc = "idle" /\ hist = "limit_set"
  /\ GetLimit("get_neg_limit", 1)

NextLimit ==
  \/ LimitSetPos
  \/ LimitSetNeg
  \/ LimitGetPos
  \/ LimitGetNeg
  \/ CallerContinues

SpecLimit == Init /\ [][NextLimit]_vars

(***************************************************************************)
(* Calls from several threads.  Each thread issues one liballuris_set_mode  *)
(* or liballuris_get_mode; every statement that touches out_buf, in_buf or  *)
(* the USB endpoints is a step of its own, so that the steps of two calls   *)
(* interleave.  Every transfer is complete here: what is studied is the     *)
(* sharing of the buffers, not the transport.                               *)
(***************************************************************************)
ThrFns == {"set_mode", "get_mode"}

\* faulty variant: liballuris_set_mode does not store the mode byte
ThrFrameNoMode(fn, arg) ==
  IF fn = "set_mode" THEN <<4, 3>> ELSE <<5, 2>>

\* the bytes the command stores into out_buf before the transfer
ThrFrame(fn, arg) ==
  IF fn = "set_mode" THEN <<4, 3, arg>> ELSE <<5, 2>>

ThrSendLen(fn) == IF fn = "set_mode" THEN 3 ELSE 2

ThrReplyLen(fn) == 3

\* callers that serialise do not enter the library while a call is running
ThrMayBegin(i) ==
  thr.serial => \A j \in Threads \ {i} : thr.t[j].pc \in {"idle", "done"}

ThrSet(i, rec) == [thr EXCEPT !.t[i] = rec]

ThrIdleRest ==
  UNCHANGED <<pc, timeout, state, call, tx, hist, outv, ncalls>>

\* entry of the command: the range check of liballuris_set_mode
ThrBegin(i) ==
  /\ ~thr.aborted
  /\ thr.t[i].pc = "idle"
  /\ ThrMayBegin(i)
  /\ \E fn \in ThrFns :
       \E arg \in (IF fn = "set_mode" THEN ModeArgs ELSE {0}) :
         thr' = ThrSet(i, IF fn = "set_mode" /\ ModeOutOfRange(arg)
                            THEN [IdleThread EXCEPT !.pc = "done", !.fn = fn,
                                    !.arg = arg,
                                    !.ret = LIBALLURIS_OUT_OF_RANGE]
                            ELSE [IdleThread EXCEPT !.pc = "store", !.fn = fn,
                                    !.arg = arg])
  /\ UNCHANGED <<out_buf, in_buf, dev>>
  /\ ThrIdleRest

\* one assignment out_buf[k] = ...
ThrStore(i) ==
  LET t == thr.t[i]
      frame == ThrFrame(t.fn, t.arg)
  IN  /\ ~thr.aborted
      /\ t.pc = "store"
      /\ t.k < Len(frame)
      /\ out_buf' = [out_buf EXCEPT ![t.k] = frame[t.k + 1]]
      /\ thr' = ThrSet(i, [t EXCEPT !.k = t.k + 1])
      /\ UNCHANGED <<in_buf, dev>>
      /\ ThrIdleRest

\* entry of the transfer engine: assert (out_buf[1] == send_len)
ThrEnter(i) ==
  LET t == thr.t[i]
  IN  /\ ~thr.aborted
      /\ t.pc = "store"
      /\ t.k = Len(ThrFrame(t.fn, t.arg))
      /\ ~ExceedsCapacity(ThrSendLen(t.fn), ThrReplyLen(t.fn))
      /\ IF out_buf[1] = ThrSendLen(t.fn)
           THEN thr' = ThrSet(i, [t EXCEPT !.pc = "write"])
           ELSE thr' = [thr EXCEPT !.aborted = TRUE, !.t[i].pc = "assert"]
      /\ UNCHANGED <<out_buf, in_buf, dev>>
      /\ ThrIdleRest

\* the bulk write: send_len bytes of out_buf as they are now go to the
\* instrument, which queues its reply
ThrWrite(i) ==
  LET t == thr.t[i]
      frame == Bytes(out_buf, ThrSendLen(t.fn))
      d1 == DevProcess(frame, dev)
      reply == DevReply(frame, d1, FALSE)
  IN  /\ ~thr.aborted
      /\ t.pc = "write"
      /\ dev' = d1
      /\ thr' = [thr EXCEPT !.wire = Append(@, reply),
                            !.t[i] = [t EXCEPT !.pc = "read", !.sent = frame,
                                               !.own = reply]]
      /\ UNCHANGED <<out_buf, in_buf>>
      /\ ThrIdleRest

\* the bulk read: the oldest queued reply lands in in_buf
ThrRead(i) ==
  LET t == thr.t[i]
      reply == Take(Head(thr.wire), ThrReplyLen(t.fn))
  IN  /\ ~thr.aborted
      /\ t.pc = "read"
      /\ thr.wire # <<>>
      /\ in_buf' = SetBytes(in_buf, reply)
      /\ thr' = [thr EXCEPT !.wire = Tail(@),
                            !.t[i] = [t EXCEPT !.pc = "check", !.got = reply,
                                               !.actual = Len(reply)]]
      /\ UNCHANGED <<out_buf, dev>>
      /\ ThrIdleRest

\* the reply check of the engine, then the command's own use of in_buf
ThrFinish(i) ==
  LET t == thr.t[i]
      r == IF ReplyMalformed(LIBUSB_SUCCESS, ThrSendLen(t.fn), in_buf[0],
                             out_buf[0], in_buf[1], t.actual)
             THEN LIBALLURIS_MALFORMED_REPLY
           ELSE LIBUSB_SUCCESS
      ret == IF t.fn = "set_mode" /\ in_buf[2] # t.arg
               THEN LIBALLURIS_DEVICE_BUSY
             ELSE r
  IN  /\ ~thr.aborted
      /\ t.pc = "check"
      /\ thr' = ThrSet(i, [t EXCEPT !.pc = "done", !.ret = ret,
                                    !.seen = <<out_buf[0]>>
                                               \o Bytes(in_buf, ThrReplyLen(t.fn))])
      /\ UNCHANGED <<out_buf, in_buf, dev>>
      /\ ThrIdleRest

InitThreads ==
  /\ out_buf = [i \in 0..(DEFAULT_SEND_BUF_LEN - 1) |-> 0]
  /\ in_buf = [i \in 0..(DEFAULT_RECV_BUF_LEN - 1) |-> 0]
  /\ dev \in {d \in [measuring : BOOLEAN, target : BOOLEAN, mode : {0},
                      pos : {<<0, 0, 0>>}, neg : {<<0, 0, 0>>}] :
                 d.target = d.measuring}
  /\ pc = "idle"
  /\ timeout = 0
  /\ state = NoState
  /\ call = NoCall
  /\ tx = NoTx
  /\ hist = "other"
  /\ outv = NoOut
  /\ ncalls = 0
  /\ thr \in {[NoThreads EXCEPT !.serial = s] : s \in BOOLEAN}

NextThreads ==
  \E i \in Threads :
    \/ ThrBegin(i)
    \/ ThrStore(i)
    \/ ThrEnter(i)
    \/ ThrWrite(i)
    \/ ThrRead(i)
    \/ ThrFinish(i)

SpecThreads == InitThreads /\ [][NextThreads]_vars

(***************************************************************************)
(* Properties                                                              *)
(***************************************************************************)
\* the last transaction moved every byte both phases asked for
WriteComplete == tx.wrote /\ tx.w_r = LIBUSB_SUCCESS /\ tx.w_actual = tx.send_len
ReadComplete == tx.read /\ tx.r_r = LIBUSB_SUCCESS /\ tx.r_actual = tx.reply_len
\* the reply echoes the opcode sent and declares the length received
Framed == tx.in0 = tx.out0 /\ tx.in1 = tx.r_actual

Budget(fn) == IF fn = "start" THEN StartTimeout ELSE StopTimeout

\* C1: whenever liballuris_device_bulk_transfer returns 0, each phase that
\* was asked for moved exactly the requested number of bytes and, when a
\* send preceded the receive, the reply echoes byte 0 of the frame sent and
\* its byte 1 is the number of bytes received.
C1_ZeroMeansComplete ==
  (tx.abort = "none" /\ tx.ret = 0) =>
    /\ tx.send_len > 0 => (tx.wrote /\ tx.w_actual = tx.send_len)
    /\ tx.reply_len > 0 => (tx.read /\ tx.r_actual = tx.reply_len)
    /\ (tx.send_len > 0 /\ tx.reply_len > 0) => Framed

\* C2: a command one of whose bulk writes moved fewer bytes than requested
\* returns a non-zero error code, whatever code the USB stack gave the write.
C2_ShortWriteIsAnError ==
  (pc = "returned" /\ call.shortw) => call.ret # 0

\* C3: a command whose write and read both succeed with full length but
\* whose reply does not echo the opcode sent, or declares another length
\* than was received, returns LIBALLURIS_MALFORMED_REPLY.
C3_MalformedReplySurfaces ==
  (pc = "returned" /\ call.txs > 0 /\ WriteComplete /\ ReadComplete /\ ~Framed)
    => call.ret = LIBALLURIS_MALFORMED_REPLY

\* C4: in start (stop), when the last state read made succeeded and reported
\* measuring (not measuring), the call returns 0, at whichever of the 20 (10)
\* reads that happens; when all 20 (10) reads succeeded and none reported it,
\* the call returns LIBALLURIS_DEVICE_BUSY.
C4_PollStopsAtFirstSuccess ==
  (pc = "returned" /\ call.fn \in {"start", "stop"} /\ call.reads >= 1
     /\ call.rd_ret = 0)
    => /\ call.reads <= Budget(call.fn)
       /\ (call.rd_meas = (call.fn = "start")) => call.ret = 0
       /\ (call.rd_meas # (call.fn = "start"))
            => (call.reads = Budget(call.fn) /\ call.ret = LIBALLURIS_DEVICE_BUSY)

\* C5: in the polling loops, once a state read returns a non-zero code no
\* further state read is issued and the call returns exactly that code.
C5_ReadErrorPropagates ==
  /\ (pc \in {"start_loop", "stop_loop"} /\ call.reads >= 1) => call.rd_ret = 0
  /\ (pc = "returned" /\ call.fn \in {"start", "stop"} /\ call.reads >= 1
        /\ call.rd_ret # 0)
       => call.ret = call.rd_ret

\* C6: after start followed at once by stop, if stop returns 0 then its last
\* state read reported not measuring, and a state read that follows reports
\* not measuring.
C6_StartStopLeavesIdle ==
  /\ (pc = "returned" /\ call.fn = "stop" /\ call.prev = "started" /\ call.ret = 0)
       => (call.reads >= 1 /\ ~call.rd_meas)
  /\ (pc = "returned" /\ call.fn = "read_state" /\ call.prev = "stopped"
        /\ call.ret = 0)
       => (outv.written /\ outv.val = FALSE)

\* C7: stop on an idle instrument (the stop command is acknowledged and the
\* first state read succeeds and reports not measuring) returns 0 after
\* exactly one state read and without sleeping.
C7_StopOnIdleIsImmediate ==
  (call.fn = "stop" /\ call.rd1 = "idle")
    => (pc = "returned" /\ call.ret = 0 /\ call.reads = 1 /\ call.sleeps = 0)

C7_Witness ==
  /\ pc = "returned" /\ call.fn = "stop" /\ call.rd1 = "idle"
  /\ ~call.dev_meas /\ call.ret = 0 /\ call.reads = 1

\* C8: while the instrument is measuring, a serial number, digits or mode
\* query whose transfers all went through returns LIBALLURIS_DEVICE_BUSY and
\* stores nothing at the caller's output location.
C8_QueriesBusyWhileMeasuring ==
  (pc = "returned" /\ call.fn \in {"serial_number", "digits", "get_mode"}
     /\ call.dev_meas /\ WriteComplete /\ ReadComplete /\ Framed)
    => (call.ret = LIBALLURIS_DEVICE_BUSY /\ ~outv.written)

C10_Step ==
  (pc = "idle" /\ pc' = "returned" /\ call'.fn = "cyclic_measurement")
    => IF call'.arg > CyclicMaxLen
         THEN /\ call'.ret = LIBALLURIS_OUT_OF_RANGE
              /\ call'.txs = 0 /\ call'.xfers = 0
              /\ out_buf' = out_buf /\ in_buf' = in_buf /\ dev' = dev
         ELSE /\ call'.txs = 1
              /\ tx'.send_len = 4 /\ tx'.wrote
              /\ Bytes(out_buf', 4)
                   = <<1, 4, IF call'.arg2 THEN 2 ELSE 0, call'.arg>>
              /\ tx'.sent = Take(Bytes(out_buf', 4), tx'.w_actual)
              /\ call'.ret = tx'.ret
              /\ (WriteComplete' /\ ReadComplete' /\ Framed') => call'.ret = 0

C11_Step ==
  (pc = "idle" /\ pc' \in {"returned", "aborted"} /\ call'.fn = "set_mode")
    => IF call'.arg < 0 \/ call'.arg > 3
         THEN /\ pc' = "returned"
              /\ call'.ret = LIBALLURIS_OUT_OF_RANGE
              /\ call'.txs = 0 /\ call'.xfers = 0
              /\ out_buf' = out_buf /\ in_buf' = in_buf
         ELSE /\ call'.txs = 1
              /\ tx'.send_len = 3 /\ tx'.reply_len = 3 /\ tx'.wrote
              /\ Bytes(out_buf', 3) = <<4, 3, call'.arg>>

C11_SetModeRange == [][C11_Step]_vars

C11_Witness ==
  /\ pc = "returned" /\ call.fn = "set_mode" /\ call.arg = 4
  /\ call.ret = LIBALLURIS_OUT_OF_RANGE /\ call.xfers = 0

\* C12: liballuris_set_mode returns LIBALLURIS_DEVICE_BUSY only when its own
\* transaction returned 0 and the mode byte of that reply differs from the
\* mode asked for; when its transaction returns an error, set_mode returns
\* that error, whatever in_buf held before the call.
C12_SetModeBusyOnlyOnEcho ==
  (pc = "returned" /\ call.fn = "set_mode" /\ call.txs = 1)
    => /\ call.ret = LIBALLURIS_DEVICE_BUSY
            => (tx.ret = 0 /\ tx.read /\ in_buf[2] # call.arg)
       /\ tx.ret # 0 => call.ret = tx.ret

\* C13: liballuris_serial_number, liballuris_digits, liballuris_raw_value,
\* liballuris_raw_pos_peak and liballuris_raw_neg_peak write the caller's
\* output location only when they return 0; on every non-zero return the
\* location is left as it was.
C13_OutputOnlyOnSuccess ==
  (pc = "returned"
     /\ call.fn \in {"serial_number", "digits", "raw_value", "raw_pos_peak",
                     "raw_neg_peak"}
     /\ call.ret # 0)
    => ~outv.written

\* C14: a limit v in -8388608..8388607, encoded as the three little-endian
\* payload bytes the limit setters send and decoded from the reply by
\* char_to_int24, comes back as v, whatever the decoder's temporary held.
C14_Int24RoundTrip ==
  (pc = "returned" /\ call.fn \in {"get_pos_limit", "get_neg_limit"}
     /\ call.prev = "limit_set" /\ call.ret = 0 /\ WriteComplete /\ ReadComplete)
    => \E v \in LimitArgs :
         /\ EncodeInt24(v) = (IF call.arg2 = 0 THEN dev.pos ELSE dev.neg)
         /\ outv.written /\ outv.val = v

\* C15: a non-zero value returned by liballuris_device_bulk_transfer is a
\* negative code of the USB stack or LIBALLURIS_MALFORMED_REPLY, never
\* LIBALLURIS_DEVICE_BUSY or LIBALLURIS_OUT_OF_RANGE.
C15_PrimitiveReturnCodes ==
  (tx.abort = "none" /\ tx.ret # 0)
    => /\ tx.ret < 0 \/ tx.ret = LIBALLURIS_MALFORMED_REPLY
       /\ tx.ret < 0 => tx.ret \in {tx.w_r, tx.r_r}
       /\ tx.ret \notin {LIBALLURIS_DEVICE_BUSY, LIBALLURIS_OUT_OF_RANGE}

C15_Witness ==
  /\ tx.abort = "none" /\ tx.wrote /\ tx.w_r = LIBUSB_ERROR_TIMEOUT
  /\ tx.ret = LIBUSB_ERROR_TIMEOUT

\* C16: liballuris_start_measurement returns LIBALLURIS_DEVICE_BUSY only
\* after all 20 state reads of its loop, liballuris_stop_measurement only
\* after all 10; never when the command transaction failed or when fewer
\* reads were made.
C16_BusyOnlyAfterFullPoll ==
  (pc = "returned" /\ call.fn \in {"start", "stop"}
     /\ call.ret = LIBALLURIS_DEVICE_BUSY)
    => (call.reads = Budget(call.fn) /\ call.txs = Budget(call.fn) + 1)

C16_Witness ==
  /\ pc = "returned" /\ call.fn = "start" /\ call.ret = LIBALLURIS_DEVICE_BUSY
  /\ call.reads = StartTimeout /\ ~call.rd_meas /\ call.rd_ret = 0

\* C17: when the send length or the receive length handed to
\* liballuris_device_bulk_transfer exceeds the capacity of its buffer (as in
\* liballuris_poll_measurement with 5 + 3 * length above the receive
\* capacity), the process is ended before any bulk transfer and no error
\* code reaches the caller; the process is ended this way in no other case.
C17_CapacityAbort ==
  /\ (tx.send_len > DEFAULT_SEND_BUF_LEN \/ tx.reply_len > DEFAULT_RECV_BUF_LEN)
       <=> tx.abort = "exit"
  /\ tx.abort = "exit"
       => (pc = "aborted" /\ ~tx.wrote /\ ~tx.read /\ call.xfers = 0
           /\ ~outv.written)
  /\ (pc \in {"returned", "aborted"} /\ call.fn = "poll_measurement"
        /\ 5 + 3 * call.arg > DEFAULT_RECV_BUF_LEN)
       => (pc = "aborted" /\ tx.abort = "exit")

C17_Witness ==
  /\ pc = "aborted" /\ call.fn = "poll_measurement" /\ call.arg = 20
  /\ tx.abort = "exit" /\ tx.reply_len = 65 /\ call.xfers = 0

\* C18: in a transaction whose write phase failed (a USB error code or a
\* short count), no bulk read is made and the reply is not validated: the
\* transaction returns the code of the write.
C18_NoReadAfterFailedWrite ==
  (tx.wrote /\ (tx.w_r # LIBUSB_SUCCESS \/ tx.w_actual # tx.send_len))
    => (~tx.read /\ tx.r_actual = 0 /\ tx.ret = tx.w_r
        /\ tx.ret # LIBALLURIS_MALFORMED_REPLY)

C18_Witness ==
  /\ tx.wrote /\ tx.w_r = LIBUSB_SUCCESS /\ tx.w_actual < tx.send_len
  /\ tx.reply_len > 0 /\ ~tx.read

Int24At(buf, off) ==
  LET u == buf[off] + 256 * buf[off + 1] + 65536 * buf[off + 2]
  IN  IF u >= 8388608 THEN u - 16777216 ELSE u

\* C20: liballuris_poll_measurement (length) sends nothing, asks the IN
\* endpoint for exactly 5 + 3 * length bytes and writes all `length' entries
\* of the caller's buffer, entry k being the signed 24 bit number at offset
\* 5 + 3k of in_buf, whether the transaction returned 0 or an error.
C20_PollWritesAllEntries ==
  (pc = "returned" /\ call.fn = "poll_measurement")
    => /\ ~tx.wrote /\ tx.send_len = 0
       /\ tx.read /\ tx.reply_len = 5 + 3 * call.arg
       /\ call.ret = tx.ret
       /\ call.arg > 0
            => /\ outv.written
               /\ DOMAIN outv.val = 1..call.arg
               /\ \A k \in 1..call.arg :
                    outv.val[k] = Int24At(in_buf, 5 + 3 * (k - 1))

C21_AssertFails == ~thr.serial /\ thr.aborted

\* unserialised callers: a command decoded the reply to the other's frame
C21_ForeignReply ==
  /\ ~thr.serial
  /\ \E i \in Threads :
       /\ thr.t[i].pc = "done"
       /\ thr.t[i].got # <<>>
       /\ thr.t[i].got # thr.t[i].own

\* serialised callers: both calls ran to completion one after the other
C21_SerialDone ==
  /\ thr.serial
  /\ \A i \in Threads : thr.t[i].pc = "done" /\ thr.t[i].sent # <<>>

\* C22: every transfer returning, liballuris_start_measurement returns (or
\* the process ends in it) after at most 20 state reads and 20 sleeps and
\* liballuris_stop_measurement after at most 10 state reads and 10 sleeps,
\* whatever the instrument replies and whatever the transport reports.
C22_PollingTerminates ==
  /\ [](/\ call.fn = "start" => (call.reads <= 20 /\ call.sleeps <= 20)
        /\ call.fn = "stop" => (call.reads <= 10 /\ call.sleeps <= 10))
  /\ (pc \in {"start_loop", "stop_loop"}) ~> (pc \in {"returned", "aborted"})

\* a start that used all 20 passes, sleeping in each of them, and returned
C22_Witness ==
  /\ pc = "returned"
  /\ call.fn = "start"
  /\ call.reads = 20
  /\ call.sleeps = 20

\* a stop that used all 10 passes, sleeping in each of them, and returned
C22_WitnessStop ==
  /\ pc = "returned"
  /\ call.fn = "stop"
  /\ call.reads = 10
  /\ call.sleeps = 10

\* C23: every byte of a frame a command transmits is determined by the
\* command and its arguments alone.  For the limit commands: a setter sends
\* 0x18, 6, selector and the three bytes of its argument, and a getter sends
\* the same six bytes after every history, namely those it sends after a
\* setter that was given the limit 0 (C23_GetAfterZero).
C23_FrameIndependentOfHistory ==
  (pc = "returned" /\ WriteComplete) =>
    /\ call.fn \in {"set_pos_limit", "set_neg_limit"} =>
          tx.sent = <<24, 6, call.arg2>> \o EncodeInt24(call.arg)
    /\ call.fn \in {"get_pos_limit", "get_neg_limit"} =>
          tx.sent = <<25, 6, call.arg2, 0, 0, 0>>

\* the run the others are compared with: a getter called after a setter
\* that was given the limit 0
C23_GetAfterZero ==
  /\ pc = "returned" /\ WriteComplete
  /\ call.fn = "get_pos_limit" /\ call.prev = "limit_set"
  /\ tx.sent = <<25, 6, 0, 0, 0, 0>>

\* a getter whose frame ends in the bytes of the limit an earlier setter sent
C23_GetAfterMinusOne ==
  /\ pc = "returned" /\ WriteComplete
  /\ call.fn = "get_pos_limit" /\ call.prev = "limit_set"
  /\ tx.sent = <<25, 6, 0, 255, 255, 255>>

\* C24: whenever a pass of the start or stop polling loop inspects the
\* measuring flag, for the decision to sleep (sleep_on) or for the decision
\* to continue (while_on), the snapshot it inspects was written by the
\* successful state read of that same pass; it is never uninitialised and
\* never left over from an earlier pass.
C24_DecisionsUseFreshSnapshot ==
  call.fn \in {"start", "stop"} =>
    /\ call.sleep_on \in {"none", "fresh"}
    /\ call.while_on \in {"none", "fresh"}

\* the sleep decision read a snapshot no state read had written
C24_SleepOnUninitialised ==
  call.fn \in {"start", "stop"} /\ call.sleep_on = "uninit"

\* the sleep decision read the snapshot of an earlier pass
C24_SleepOnStale ==
  call.fn \in {"start", "stop"} /\ call.sleep_on = "stale"

\* the loop condition reads the flag only after a successful state read
C24_WhileUsesFreshSnapshot ==
  call.fn \in {"start", "stop"} => call.while_on \in {"none", "fresh"}

====
